---- MODULE Spec2Model ----
(***************************************************************************)
(* Model of morse.sensors.armature_pose.ArmaturePose: the sensor that      *)
(* reports the joint state of the armature it is parented to.              *)
(*                                                                         *)
(* Floats are modelled by integers that the code only copies (no           *)
(* arithmetic is done on joint values).  Python exceptions are modelled    *)
(* by the tag of their cause:                                              *)
(*   NotAttached   AttributeError: self.armature is None, or the attribute *)
(*                 _armature_actuator was never set (constructor returned  *)
(*                 at line 66)                                             *)
(*   NotReady      AttributeError: self._armature_actuator is None         *)
(*   UnknownJoint  raised by the actuator's _get_joint                     *)
(*   NoActiveAxis  StopIteration of next() over a mask with no true entry  *)
(***************************************************************************)
EXTENDS Integers, Sequences, FiniteSets, TLC

VARIABLES
    parent,              \* scene: obj.parent of every object (None at the root)
    hasChannels,         \* scene: the objects with a "channels" attribute
    channels,            \* armature.channels: sequence of [name, prismatic]
    joint_rotation,      \* channel.joint_rotation, by channel name
    head_pose,           \* channel.head_pose, by channel name
    pose_head,           \* channel.pose_head, by channel name
    pose_tail,           \* channel.pose_tail, by channel name
    dofs,                \* the armature actuator's _dofs, by channel name
    componentDict,       \* keys of persistantstorage().componentDict
    armature,            \* self.armature (Unset before the constructor ran)
    _armature_actuator,  \* self._armature_actuator (Unset: no such attribute)
    local_data,          \* self.local_data: ordered <<name, value>> pairs
    last                 \* the call that just returned: [op, arg, ret]

vars == <<parent, hasChannels, channels, joint_rotation, head_pose, pose_head,
          pose_tail, dofs, componentDict, armature, _armature_actuator,
          local_data, last>>

scene == <<parent, hasChannels, channels, dofs>>
pose == <<joint_rotation, head_pose, pose_head, pose_tail>>
sensor == <<armature, _armature_actuator, local_data>>

----------------------------------------------------------------------------
(* Bounds and value sets *)

\* number of distinct poses the armature can take
MaxPose == 2

None == "None"
Unset == "Unset"

\* the sensor's own Blender object and its ancestors (docstring, lines 20-27)
blender_obj == "arm_pose"
Objects == {"arm_pose", "arm", "robot"}

JointNames == {"A", "B"}
\* names a caller may ask for: the joints and one name no armature has
QueryNames == JointNames \cup {"Z"}

Masks == [1..3 -> BOOLEAN]
Poses == 1..MaxPose

NameIndex(n) == IF n = "A" THEN 1 ELSE 2
\* pose p of joint n: six pairwise distinct readings, none of them 0
RotationAt(n, p) == [i \in 1..3 |-> 100 * NameIndex(n) + 10 * p + i]
HeadAt(n, p) == [i \in 1..3 |-> 100 * NameIndex(n) + 10 * p + 3 + i]
\* the bone of joint n in pose p: it moves with p and keeps its length
BoneHeadAt(n, p) == <<p, 0, 0>>
BoneTailAt(n, p) == <<p, 3 * NameIndex(n), 4 * NameIndex(n)>>

\* injective sequences of joint names: the armatures
RECURSIVE SeqsOver(_, _)
SeqsOver(S, n) ==
    IF n = 0 THEN {<<>>}
    ELSE LET shorter == SeqsOver(S, n - 1)
         IN shorter \cup {Append(s, x) : s \in shorter, x \in S}
Injective(s) == \A i, j \in 1..Len(s) : i # j => s[i] # s[j]
ChainNames == {s \in SeqsOver(JointNames, Cardinality(JointNames)) : Injective(s)}

Names(chs) == [i \in 1..Len(chs) |-> chs[i].name]
NameSet(chs) == {chs[i].name : i \in 1..Len(chs)}

----------------------------------------------------------------------------
(* Results of a call *)

Return(v) == [kind |-> "return", val |-> v]
Raise(e) == [kind |-> "raise", val |-> e]
NoCall == [op |-> "none", arg |-> None, ret |-> Return(None)]
Call(op, arg, ret) == [op |-> op, arg |-> arg, ret |-> ret]

----------------------------------------------------------------------------
(* The ordered dictionaries of the code, as sequences of <<key, value>> *)

Keys(d) == [i \in 1..Len(d) |-> d[i][1]]
HasKey(d, k) == \E i \in 1..Len(d) : d[i][1] = k
Get(d, k) == d[CHOOSE i \in 1..Len(d) : d[i][1] = k][2]
\* d[k] = v: overwrites in place, or appends a new key
SetItem(d, k, v) ==
    IF HasKey(d, k)
    THEN [i \in 1..Len(d) |-> IF d[i][1] = k THEN <<k, v>> ELSE d[i]]
    ELSE Append(d, <<k, v>>)

----------------------------------------------------------------------------
(* The armature actuator: the helpers the sensor reuses (line 129, 132) *)

\* armature_actuator._get_joint(joint): (channel, is_prismatic), or an error
_get_joint(joint) ==
    IF joint \notin NameSet(channels)
    THEN Raise("UnknownJoint")
    ELSE LET channel == channels[CHOOSE i \in 1..Len(channels) :
                                     channels[i].name = joint]
         IN Return(<<channel, channel.prismatic>>)

\* armature_actuator.find_dof(channel): the three-entry axis mask
find_dof(channel) == dofs[channel.name]

----------------------------------------------------------------------------
(* ArmaturePose *)

RECURSIVE _get_armature_parent_first(_)
\* mutant: the parent link is tested before the channels attribute
_get_armature_parent_first(obj) ==
    IF parent[obj] = None THEN None
    ELSE IF obj \in hasChannels THEN obj
    ELSE _get_armature_parent_first(parent[obj])

\* _get_armature(obj), lines 78-84
RECURSIVE _get_armature(_)
_get_armature(obj) ==
    IF obj \in hasChannels THEN obj
    ELSE IF parent[obj] = None THEN None
    ELSE _get_armature(parent[obj])

\* mutant: the registry is asked for the sensor's own object, not the armature
_get_armature_actuator_by_sensor_name ==
    IF armature # None /\ blender_obj \in componentDict
    THEN blender_obj
    ELSE _armature_actuator

\* _get_armature_actuator(), lines 86-90: the value of self._armature_actuator
\* after the call
_get_armature_actuator ==
    IF armature # None /\ armature \in componentDict
    THEN armature
    ELSE _armature_actuator

\* mutant: the registry is read on every call and its answer kept, found or not
LazyActuator_uncached ==
    IF _armature_actuator = Unset THEN Unset
    ELSE IF armature # None /\ armature \in componentDict THEN armature
    ELSE None

\* lines 124-125 and 161-162: look the actuator up while there is none
LazyActuator ==
    IF _armature_actuator = None THEN _get_armature_actuator
    ELSE _armature_actuator

\* mutant: the constructor leaves local_data as the base class made it
InitLocalData_forgotten(data, i) == data

\* lines 73-74: local_data[channel.name] = 0.0 for every channel
RECURSIVE InitLocalData(_, _)
InitLocalData(data, i) ==
    IF i > Len(channels) THEN data
    ELSE InitLocalData(SetItem(data, channels[i].name, 0), i + 1)

\* mutant: the last true entry is taken instead of the first
LastTrue(mask) ==
    IF \E i \in 1..3 : mask[i]
    THEN CHOOSE i \in 1..3 : mask[i] /\ \A j \in (i + 1)..3 : ~mask[j]
    ELSE 0

\* next(i for i, j in enumerate(mask) if j), line 132; 0 stands for the
\* StopIteration of an exhausted generator.  Axes are numbered 1..3 here and
\* 0..2 in the code.
FirstTrue(mask) ==
    IF \E i \in 1..3 : mask[i]
    THEN CHOOSE i \in 1..3 : mask[i] /\ \A j \in 1..(i - 1) : ~mask[j]
    ELSE 0

\* mutant: the joint's kind is ignored, the rotation is always read
get_joint_rotation_only(actuator, joint) ==
    IF actuator = Unset THEN Raise("NotAttached")
    ELSE IF actuator = None THEN Raise("NotReady")
    ELSE LET found == _get_joint(joint)
         IN IF found.kind = "raise" THEN found
            ELSE LET channel == found.val[1]
                     axis_index == FirstTrue(find_dof(channel))
                 IN IF axis_index = 0 THEN Raise("NoActiveAxis")
                    ELSE Return(joint_rotation[channel.name][axis_index])

\* mutant: the joint is looked up in the armature before the actuator is used
get_joint_name_first(actuator, joint) ==
    IF actuator = Unset THEN Raise("NotAttached")
    ELSE IF joint \notin NameSet(channels) THEN Raise("UnknownJoint")
    ELSE IF actuator = None THEN Raise("NotReady")
    ELSE LET found == _get_joint(joint)
             channel == found.val[1]
             is_prismatic == found.val[2]
             axis_index == FirstTrue(find_dof(channel))
         IN IF axis_index = 0 THEN Raise("NoActiveAxis")
            ELSE IF is_prismatic
            THEN Return(head_pose[channel.name][axis_index])
            ELSE Return(joint_rotation[channel.name][axis_index])

\* get_joint(joint), lines 127-137, with self._armature_actuator = actuator
get_joint(actuator, joint) ==
    IF actuator = Unset THEN Raise("NotAttached")
    ELSE IF actuator = None THEN Raise("NotReady")
    ELSE LET found == _get_joint(joint)
         IN IF found.kind = "raise" THEN found
            ELSE LET channel == found.val[1]
                     is_prismatic == found.val[2]
                     axis_index == FirstTrue(find_dof(channel))
                 IN IF axis_index = 0 THEN Raise("NoActiveAxis")
                    ELSE IF is_prismatic
                    THEN Return(head_pose[channel.name][axis_index])
                    ELSE Return(joint_rotation[channel.name][axis_index])

\* mutant: the joints are listed from tip to root
get_joints_tip_to_root ==
    IF armature = None THEN Raise("NotAttached")
    ELSE Return([i \in 1..Len(channels) |->
                    channels[Len(channels) + 1 - i].name])

\* get_joints(), line 99
get_joints ==
    IF armature = None THEN Raise("NotAttached")
    ELSE Return(Names(channels))

RECURSIVE get_state(_, _, _)
RECURSIVE get_state_skipping_failures(_, _, _)
\* mutant: a joint whose get_joint fails is left out of the mapping
get_state_skipping_failures(actuator, joints, i) ==
    IF armature = None THEN Raise("NotAttached")
    ELSE IF i > Len(channels) THEN Return(joints)
    ELSE LET value == get_joint(actuator, channels[i].name)
         IN IF value.kind = "raise"
            THEN get_state_skipping_failures(actuator, joints, i + 1)
            ELSE get_state_skipping_failures(
                     actuator, SetItem(joints, channels[i].name, value.val), i + 1)

\* get_state(), lines 106-111, from channel i on, with joints built so far
get_state(actuator, joints, i) ==
    IF armature = None THEN Raise("NotAttached")
    ELSE IF i > Len(channels) THEN Return(joints)
    ELSE LET value == get_joint(actuator, channels[i].name)
         IN IF value.kind = "raise" THEN value
            ELSE get_state(actuator,
                           SetItem(joints, channels[i].name, value.val), i + 1)

\* math.sqrt of a perfect square
Sqrt(n) == CHOOSE r \in 0..n : r * r = n

RECURSIVE get_joints_length_flat(_, _)
\* mutant: the z term is missing from the distance
get_joints_length_flat(lengths_dict, i) ==
    IF armature = None THEN Raise("NotAttached")
    ELSE IF i > Len(channels) THEN Return(lengths_dict)
    ELSE LET name == channels[i].name
             diff == [k \in 1..3 |-> pose_head[name][k] - pose_tail[name][k]]
             length == Sqrt(diff[1] * diff[1] + diff[2] * diff[2])
         IN get_joints_length_flat(SetItem(lengths_dict, name, length), i + 1)

\* get_joints_length(), lines 145-153, from channel i on
RECURSIVE get_joints_length(_, _)
get_joints_length(lengths_dict, i) ==
    IF armature = None THEN Raise("NotAttached")
    ELSE IF i > Len(channels) THEN Return(lengths_dict)
    ELSE LET name == channels[i].name
             diff == [k \in 1..3 |-> pose_head[name][k] - pose_tail[name][k]]
             length == Sqrt(diff[1] * diff[1] + diff[2] * diff[2]
                            + diff[3] * diff[3])
         IN get_joints_length(SetItem(lengths_dict, name, length), i + 1)

RECURSIVE UpdateLocalData_rebuilt(_, _)
\* mutant: the mapping is built anew on every tick, from the joints it writes
UpdateLocalData_rebuilt(data, i) ==
    IF i > Len(channels) THEN IF i = 1 THEN data ELSE <<>>
    ELSE LET name == channels[i].name
             segment_angle == joint_rotation[name]
             rest == UpdateLocalData_rebuilt(data, i + 1)
         IN IF dofs[name][2] THEN <<(<<name, segment_angle[2]>>)>> \o rest
            ELSE IF dofs[name][3] THEN <<(<<name, segment_angle[3]>>)>> \o rest
            ELSE rest

RECURSIVE UpdateLocalData_z_first(_, _)
\* mutant: the Z entry of the mask is tested before the Y entry
UpdateLocalData_z_first(data, i) ==
    IF i > Len(channels) THEN data
    ELSE LET name == channels[i].name
             segment_angle == joint_rotation[name]
         IN IF dofs[name][3]
            THEN UpdateLocalData_z_first(
                     SetItem(data, name, segment_angle[3]), i + 1)
            ELSE IF dofs[name][2]
            THEN UpdateLocalData_z_first(
                     SetItem(data, name, segment_angle[2]), i + 1)
            ELSE UpdateLocalData_z_first(data, i + 1)

\* the loop of default_action, lines 165-173, from channel i on
RECURSIVE UpdateLocalData(_, _)
UpdateLocalData(data, i) ==
    IF i > Len(channels) THEN data
    ELSE LET name == channels[i].name
             segment_angle == joint_rotation[name]
         IN IF dofs[name][2]
            THEN UpdateLocalData(SetItem(data, name, segment_angle[2]), i + 1)
            ELSE IF dofs[name][3]
            THEN UpdateLocalData(SetItem(data, name, segment_angle[3]), i + 1)
            ELSE UpdateLocalData(data, i + 1)

\* mutant: the guard of line 159 is missing
default_action_unguarded ==
    IF armature = None
    THEN [ret |-> Raise("NotAttached"), actuator |-> _armature_actuator,
          data |-> local_data]
    ELSE IF Len(channels) > 0 /\ LazyActuator = None
    THEN [ret |-> Raise("NotReady"), actuator |-> LazyActuator,
          data |-> local_data]
    ELSE [ret |-> Return(None), actuator |-> LazyActuator,
          data |-> UpdateLocalData(local_data, 1)]

\* default_action(), lines 159-173: [ret, actuator, data] after the call
default_action ==
    IF armature = None
    THEN [ret |-> Return(None), actuator |-> _armature_actuator,
          data |-> local_data]
    ELSE IF Len(channels) > 0 /\ LazyActuator = None
    THEN [ret |-> Raise("NotReady"), actuator |-> LazyActuator,
          data |-> local_data]
    ELSE [ret |-> Return(None), actuator |-> LazyActuator,
          data |-> UpdateLocalData(local_data, 1)]

----------------------------------------------------------------------------
(* Initial states: a scene, an armature and its actuator's axis masks *)

Scenes == {{}, {"robot"}, {"arm", "robot"}}

Armatures ==
    UNION {[1..Len(ns) -> {[name |-> n, prismatic |-> b] :
                               n \in JointNames, b \in BOOLEAN}] :
           ns \in ChainNames}

NamedBy(chs, ns) == Len(chs) = Len(ns) /\ \A i \in 1..Len(ns) : chs[i].name = ns[i]

Init ==
    /\ parent = [o \in Objects |-> IF o = "arm_pose" THEN "arm"
                                   ELSE IF o = "arm" THEN "robot" ELSE None]
    /\ hasChannels \in Scenes
    /\ \E ns \in ChainNames :
          /\ hasChannels = {} => ns = <<>>
          /\ channels \in [1..Len(ns) -> [name : JointNames, prismatic : BOOLEAN]]
          /\ NamedBy(channels, ns)
    /\ dofs \in [NameSet(channels) -> Masks]
    /\ joint_rotation = [n \in NameSet(channels) |-> RotationAt(n, 1)]
    /\ head_pose = [n \in NameSet(channels) |-> HeadAt(n, 1)]
    /\ pose_head = [n \in NameSet(channels) |-> BoneHeadAt(n, 1)]
    /\ pose_tail = [n \in NameSet(channels) |-> BoneTailAt(n, 1)]
    /\ componentDict = {}
    /\ armature = Unset
    /\ _armature_actuator = Unset
    /\ local_data = <<>>
    /\ last = NoCall

----------------------------------------------------------------------------
(* The environment: the armature moves, actuators register and unregister *)

Move(p) ==
    /\ channels # <<>>
    /\ joint_rotation # [n \in NameSet(channels) |-> RotationAt(n, p)]
    /\ joint_rotation' = [n \in NameSet(channels) |-> RotationAt(n, p)]
    /\ head_pose' = [n \in NameSet(channels) |-> HeadAt(n, p)]
    /\ pose_head' = [n \in NameSet(channels) |-> BoneHeadAt(n, p)]
    /\ pose_tail' = [n \in NameSet(channels) |-> BoneTailAt(n, p)]
    /\ last' = NoCall
    /\ UNCHANGED <<scene, componentDict, sensor>>

Register(o) ==
    /\ o \in hasChannels \ componentDict
    /\ componentDict' = componentDict \cup {o}
    /\ last' = NoCall
    /\ UNCHANGED <<scene, pose, sensor>>

\* the registry's owner removes an entry (teardown of the actuator)
Unregister(o) ==
    /\ o \in componentDict
    /\ componentDict' = componentDict \ {o}
    /\ last' = NoCall
    /\ UNCHANGED <<scene, pose, sensor>>

----------------------------------------------------------------------------
(* The sensor's constructor, services and periodic action *)

\* __init__, lines 62-76
__init__ ==
    /\ armature = Unset
    /\ armature' = _get_armature(blender_obj)
    /\ IF armature' = None
       THEN UNCHANGED <<_armature_actuator, local_data>>
       ELSE /\ _armature_actuator' = None
            /\ local_data' = InitLocalData(local_data, 1)
    /\ last' = Call("__init__", None, Return(None))
    /\ UNCHANGED <<scene, pose, componentDict>>

GetJoints ==
    /\ armature # Unset
    /\ last' = Call("get_joints", None, get_joints)
    /\ UNCHANGED <<scene, pose, componentDict, sensor>>

\* mutant: get_state fills self.local_data instead of a fresh dictionary
GetState_publishing ==
    /\ armature # Unset
    /\ _armature_actuator' =
          IF armature = None \/ Len(channels) = 0 THEN _armature_actuator
          ELSE LazyActuator
    /\ last' = Call("get_state", None,
                    get_state(_armature_actuator', local_data, 1))
    /\ local_data' = IF last'.ret.kind = "return" THEN last'.ret.val
                     ELSE local_data
    /\ UNCHANGED <<scene, pose, componentDict, armature>>

GetState ==
    /\ armature # Unset
    /\ _armature_actuator' =
          IF armature = None \/ Len(channels) = 0 THEN _armature_actuator
          ELSE LazyActuator
    /\ last' = Call("get_state", None, get_state(_armature_actuator', <<>>, 1))
    /\ UNCHANGED <<scene, pose, componentDict, armature, local_data>>

GetJoint(joint) ==
    /\ armature # Unset
    /\ _armature_actuator' = LazyActuator
    /\ last' = Call("get_joint", joint, get_joint(_armature_actuator', joint))
    /\ UNCHANGED <<scene, pose, componentDict, armature, local_data>>

GetJointsLength ==
    /\ armature # Unset
    /\ last' = Call("get_joints_length", None, get_joints_length(<<>>, 1))
    /\ UNCHANGED <<scene, pose, componentDict, sensor>>

DefaultAction ==
    /\ armature # Unset
    /\ _armature_actuator' = default_action.actuator
    /\ local_data' = default_action.data
    /\ last' = Call("default_action", None, default_action.ret)
    /\ UNCHANGED <<scene, pose, componentDict, armature>>

Next ==
    \/ \E p \in Poses : Move(p)
    \/ \E o \in Objects : Register(o)
    \/ \E o \in Objects : Unregister(o)
    \/ __init__
    \/ GetJoints
    \/ GetState
    \/ \E joint \in QueryNames : GetJoint(joint)
    \/ GetJointsLength
    \/ DefaultAction

Spec == Init /\ [][Next]_vars

----------------------------------------------------------------------------
(* The armature lookup on its own, over every hierarchy of the objects *)

RECURSIVE UpIn(_, _, _)
\* the k-th parent of o under the parent links f (None past the root)
UpIn(f, o, k) == IF k = 0 \/ o = None THEN o ELSE UpIn(f, f[o], k - 1)
Acyclic(f) == \A o \in Objects : UpIn(f, o, Cardinality(Objects)) = None
Hierarchies == {f \in [Objects -> Objects \cup {None}] : Acyclic(f)}

InitResolve ==
    /\ parent \in Hierarchies
    /\ hasChannels \in SUBSET Objects
    /\ channels = <<>>
    /\ dofs = <<>>
    /\ joint_rotation = <<>>
    /\ head_pose = <<>>
    /\ pose_head = <<>>
    /\ pose_tail = <<>>
    /\ componentDict = {}
    /\ armature = Unset
    /\ _armature_actuator = Unset
    /\ local_data = <<>>
    /\ last = NoCall

\* self._get_armature(obj), lines 78-84, called on any object of the scene
Resolve(obj) ==
    /\ last' = Call("_get_armature", obj, Return(_get_armature(obj)))
    /\ UNCHANGED <<scene, pose, componentDict, sensor>>

NextResolve == \E obj \in Objects : Resolve(obj)

SpecResolve == InitResolve /\ [][NextResolve]_vars

----------------------------------------------------------------------------
(* Vocabulary of the properties *)

Ready == armature \notin {Unset, None}
Disabled == armature = None
Bound == _armature_actuator \notin {Unset, None}
Registered == armature \in componentDict

Returns(r, v) == r.kind = "return" /\ r.val = v
Raises(r, e) == r.kind = "raise" /\ r.val = e

TrueCount(mask) == Cardinality({i \in 1..3 : mask[i]})
TheAxis(mask) == CHOOSE i \in 1..3 : mask[i]
LowestAxis(mask) == CHOOSE i \in 1..3 : mask[i] /\ \A j \in 1..3 : mask[j] => i <= j
IsPrismatic(n) == \E i \in 1..Len(channels) :
                      channels[i].name = n /\ channels[i].prismatic
\* the reading of joint n along axis i: head position or rotation, by kind
Reading(n, i) == IF IsPrismatic(n) THEN head_pose[n][i] ELSE joint_rotation[n][i]

Queries == {"get_joints", "get_state", "get_joint", "get_joints_length"}

RECURSIVE AncestorsOf(_)
AncestorsOf(o) == IF o = None THEN {} ELSE {o} \cup AncestorsOf(parent[o])

----------------------------------------------------------------------------
(* C1 *)

\* C1: with the DOF source bound, get_joint of a chain joint whose mask has
\* exactly one true entry returns that component of the head position
\* (prismatic joint) or of the rotation vector (rotational joint), unmodified.
C1_SingleAxisValue ==
    (/\ last.op = "get_joint"
     /\ Ready
     /\ Bound
     /\ last.arg \in NameSet(channels)
     /\ TrueCount(dofs[last.arg]) = 1)
    => Returns(last.ret, Reading(last.arg, TheAxis(dofs[last.arg])))

\* a prismatic joint sliding along Y was read while bound
C1_Witness ==
    /\ last.op = "get_joint"
    /\ Ready
    /\ Bound
    /\ last.arg \in NameSet(channels)
    /\ IsPrismatic(last.arg)
    /\ dofs[last.arg] = <<FALSE, TRUE, FALSE>>
    /\ Returns(last.ret, head_pose[last.arg][2])

----------------------------------------------------------------------------
(* C2 *)

\* C2: with the DOF source bound, after default_action the published mapping
\* holds, for every joint with one active axis, the value get_joint returns
\* for that joint in the same pose.
C2_TickPublishesJointValues ==
    (/\ last.op = "default_action"
     /\ Ready
     /\ Bound)
    => \A i \in 1..Len(channels) :
          TrueCount(dofs[channels[i].name]) = 1
          => Returns(get_joint(_armature_actuator, channels[i].name),
                     Get(local_data, channels[i].name))

----------------------------------------------------------------------------
(* C3 *)

\* C3: default_action on a Ready sensor whose DOF source is still unbound
\* leaves the published mapping unchanged and raises nothing.
C3_UnboundTickIsSilent ==
    [][(/\ last'.op = "default_action"
        /\ Ready
        /\ ~Registered
        /\ _armature_actuator = None)
       => (local_data' = local_data /\ last'.ret.kind = "return")]_vars

----------------------------------------------------------------------------
(* C4 *)

\* every joint of the chain has an active axis
AllAxesDeclared == \A n \in NameSet(channels) : TrueCount(dofs[n]) >= 1
\* the call just made asks for something the armature can answer
Answerable ==
    \/ last.op = "get_state" /\ AllAxesDeclared
    \/ /\ last.op = "get_joint"
       /\ last.arg \in NameSet(channels)
       /\ TrueCount(dofs[last.arg]) >= 1

\* C4 as claimed: on a Ready sensor every get_joint/get_state call made before
\* the DOF source is registered (none in the registry, none bound) fails with
\* NotReady; a call made once it is registered succeeds, the sensor not being
\* constructed again.
C4_NotReadyUntilRegistered ==
    (Ready /\ last.op \in {"get_joint", "get_state"})
    => IF ~Registered /\ ~Bound
       THEN Raises(last.ret, "NotReady")
       ELSE Answerable => last.ret.kind = "return"

\* C4 as amended: the same, except that get_state over an armature without
\* joints returns the empty mapping also before registration.
C4_NotReadyUntilRegisteredNonEmpty ==
    (Ready /\ last.op \in {"get_joint", "get_state"})
    => IF ~Registered /\ ~Bound
       THEN IF last.op = "get_state" /\ channels = <<>>
            THEN Returns(last.ret, <<>>)
            ELSE Raises(last.ret, "NotReady")
       ELSE Answerable => last.ret.kind = "return"

\* a get_state call succeeded on a sensor that was constructed before the
\* actuator registered
C4_Witness ==
    /\ last.op = "get_state"
    /\ Ready
    /\ Registered
    /\ Len(channels) = 2
    /\ last.ret.kind = "return"
    /\ Len(last.ret.val) = 2

----------------------------------------------------------------------------
(* C5 *)

\* C5 as claimed: get_joint of a name that is no joint of the chain fails
\* with UnknownJoint, bound or unbound.
C5_UnknownJointAlways ==
    (/\ last.op = "get_joint"
     /\ Ready
     /\ last.arg \notin NameSet(channels))
    => Raises(last.ret, "UnknownJoint")

\* C5 as amended: it fails with UnknownJoint when the DOF source is bound and
\* with NotReady when it is unbound.
C5_UnknownJointWhenBound ==
    (/\ last.op = "get_joint"
     /\ Ready
     /\ last.arg \notin NameSet(channels))
    => IF Bound THEN Raises(last.ret, "UnknownJoint")
       ELSE Raises(last.ret, "NotReady")

\* an unknown name was asked for while unbound, and while bound
C5_Witness ==
    /\ last.op = "get_joint"
    /\ Ready
    /\ last.arg = "Z"
    /\ ~Bound
    /\ Raises(last.ret, "NotReady")

----------------------------------------------------------------------------
(* C6 *)

\* C6 as claimed: get_joint of a joint whose mask has no true entry, or two or
\* more, fails with a configuration error and returns no value.
C6_MalformedMaskFails ==
    (/\ last.op = "get_joint"
     /\ Ready
     /\ Bound
     /\ last.arg \in NameSet(channels)
     /\ TrueCount(dofs[last.arg]) # 1)
    => /\ last.ret.kind = "raise"
       /\ last.ret.val = IF TrueCount(dofs[last.arg]) = 0 THEN "NoActiveAxis"
                         ELSE "MultipleActiveAxes"

\* C6 as amended: with no true entry get_joint fails with NoActiveAxis; with
\* two or more it returns the reading along the lowest true axis.
C6_MalformedMaskFirstAxis ==
    (/\ last.op = "get_joint"
     /\ Ready
     /\ Bound
     /\ last.arg \in NameSet(channels)
     /\ TrueCount(dofs[last.arg]) # 1)
    => IF TrueCount(dofs[last.arg]) = 0
       THEN Raises(last.ret, "NoActiveAxis")
       ELSE Returns(last.ret, Reading(last.arg, LowestAxis(dofs[last.arg])))

\* a joint declared free along Y and Z was read: the Y reading came back
C6_Witness ==
    /\ last.op = "get_joint"
    /\ Ready
    /\ Bound
    /\ last.arg \in NameSet(channels)
    /\ dofs[last.arg] = <<FALSE, TRUE, TRUE>>
    /\ Returns(last.ret, Reading(last.arg, 2))

----------------------------------------------------------------------------
(* C7 *)

\* C7: no step changes the chain, and every get_joints call on a Ready sensor,
\* bound or not, returns the N joint names in the chain's declared order.
C7_JointsInChainOrder ==
    [][/\ channels' = channels
       /\ (last'.op = "get_joints" /\ Ready)
          => /\ last'.ret.kind = "return"
             /\ Len(last'.ret.val) = Len(channels)
             /\ \A i \in 1..Len(channels) :
                   last'.ret.val[i] = channels[i].name]_vars

\* the joints of a two-joint chain declared B then A were listed while the
\* DOF source was unbound
C7_Witness ==
    /\ last.op = "get_joints"
    /\ Ready
    /\ ~Bound
    /\ Len(channels) = 2
    /\ channels[1].name = "B"
    /\ Returns(last.ret, <<"B", "A">>)

----------------------------------------------------------------------------
(* C8 *)

\* C8 as claimed: once the constructor found no armature, every operation,
\* default_action included, fails with NotAttached.
C8_DisabledEverythingFails ==
    (Disabled /\ last.op \in Queries \cup {"default_action"})
    => Raises(last.ret, "NotAttached")

\* C8 as amended: once the constructor found no armature the sensor never
\* becomes Ready, every query fails with NotAttached, and default_action
\* returns silently, publishing nothing.
C8_DisabledQueriesFail ==
    [][Disabled
       => /\ Disabled'
          /\ local_data' = <<>>
          /\ last'.op \in Queries => Raises(last'.ret, "NotAttached")
          /\ last'.op = "default_action" => Returns(last'.ret, None)]_vars

\* default_action ran on a sensor without armature
C8_Witness ==
    /\ Disabled
    /\ last.op = "default_action"
    /\ Returns(last.ret, None)

----------------------------------------------------------------------------
(* C9 *)

\* C9: right after a constructor that finds an armature, local_data holds one
\* entry per joint, in chain order, each 0.0, and the sensor is Ready and
\* unbound.
C9_InitialMapping ==
    (last.op = "__init__" /\ AncestorsOf(blender_obj) \cap hasChannels # {})
    => /\ Ready
       /\ armature \in AncestorsOf(blender_obj) \cap hasChannels
       /\ _armature_actuator = None
       /\ Len(local_data) = Len(channels)
       /\ \A i \in 1..Len(channels) : local_data[i] = <<channels[i].name, 0>>

\* a sensor was constructed on a two-joint armature whose actuator had
\* registered already
C9_Witness ==
    /\ last.op = "__init__"
    /\ Ready
    /\ Registered
    /\ Len(channels) = 2
    /\ Len(local_data) = 2

----------------------------------------------------------------------------
(* C10 *)

\* the channels whose get_joint fails in the current state
Failing == {i \in 1..Len(channels) :
               get_joint(_armature_actuator, channels[i].name).kind = "raise"}
FirstFailing == CHOOSE i \in Failing : \A j \in Failing : i <= j

\* C10: get_state fails with the error of the first joint, in chain order,
\* whose get_joint fails; otherwise it returns exactly one entry per joint,
\* the joint's get_joint value.
C10_StateAllOrNothing ==
    (last.op = "get_state" /\ Ready)
    => IF Failing # {}
       THEN last.ret = get_joint(_armature_actuator, channels[FirstFailing].name)
       ELSE /\ last.ret.kind = "return"
            /\ Len(last.ret.val) = Len(channels)
            /\ \A i \in 1..Len(channels) :
                  /\ last.ret.val[i][1] = channels[i].name
                  /\ Returns(get_joint(_armature_actuator, channels[i].name),
                             last.ret.val[i][2])

\* get_state failed on a bound sensor whose first joint reads fine and whose
\* second joint has no active axis
C10_Witness ==
    /\ last.op = "get_state"
    /\ Ready
    /\ Bound
    /\ Len(channels) = 2
    /\ Failing = {2}
    /\ Raises(last.ret, "NoActiveAxis")

----------------------------------------------------------------------------
(* C11 *)

\* C11: get_joints_length on a Ready sensor succeeds whatever the state of
\* the DOF source (unbound, bound, masks malformed), returns one entry per
\* joint, the distance between the joint's pose_head and pose_tail, and
\* leaves the binding as it was.
C11_LengthsFromGeometry ==
    [][(last'.op = "get_joints_length" /\ Ready)
       => /\ last'.ret.kind = "return"
          /\ Len(last'.ret.val) = Len(channels)
          /\ \A i \in 1..Len(channels) :
                LET n == channels[i].name
                    length == last'.ret.val[i][2]
                IN /\ last'.ret.val[i][1] = n
                   /\ length >= 0
                   /\ length * length =
                         (pose_head[n][1] - pose_tail[n][1])
                             * (pose_head[n][1] - pose_tail[n][1])
                         + (pose_head[n][2] - pose_tail[n][2])
                             * (pose_head[n][2] - pose_tail[n][2])
                         + (pose_head[n][3] - pose_tail[n][3])
                             * (pose_head[n][3] - pose_tail[n][3])
          /\ _armature_actuator' = _armature_actuator]_vars

\* the lengths of a two-joint armature were asked for while its actuator was
\* registered but not bound, one mask having no true entry
C11_Witness ==
    /\ last.op = "get_joints_length"
    /\ Ready
    /\ Registered
    /\ ~Bound
    /\ Len(channels) = 2
    /\ \E n \in NameSet(channels) : TrueCount(dofs[n]) = 0
    /\ Returns(last.ret, <<(<<"B", 10>>), (<<"A", 5>>)>>)

----------------------------------------------------------------------------
(* C12 *)

\* C12: a query (get_joints, get_joint, get_state, get_joints_length), whether
\* it returns or raises, leaves every entry of local_data unchanged.
C12_QueriesDoNotPublish ==
    [][last'.op \in Queries => local_data' = local_data]_vars

\* get_state returned readings that differ from the published mapping
C12_Witness ==
    /\ last.op = "get_state"
    /\ Ready
    /\ Len(channels) = 2
    /\ last.ret.kind = "return"
    /\ last.ret.val # local_data
    /\ \E i \in 1..Len(local_data) : local_data[i][2] # 0

----------------------------------------------------------------------------
(* C13 *)

\* C13: in every state after a constructor that found an armature, the keys of
\* local_data are the chain's joint names, in chain order.
C13_KeysAreJointNames ==
    Ready => Keys(local_data) = Names(channels)

\* default_action published a reading for one joint of a bound two-joint
\* armature and wrote nothing for the other, free along X only
C13_Witness ==
    /\ last.op = "default_action"
    /\ Ready
    /\ Bound
    /\ Len(channels) = 2
    /\ dofs[channels[1].name] = <<TRUE, FALSE, FALSE>>
    /\ dofs[channels[2].name] = <<FALSE, TRUE, FALSE>>
    /\ local_data[2][2] = joint_rotation[channels[2].name][2]

----------------------------------------------------------------------------
(* C14 *)

\* C14: a bound sensor stays bound to the same actuator through every later
\* step, whatever happens to the registry; while a Ready sensor is unbound,
\* every get_joint and every default_action call looks the armature's name up
\* in the registry and binds exactly when it is there.
C14_LazyThenCached ==
    [][/\ Bound => _armature_actuator' = _armature_actuator
       /\ (/\ Ready
           /\ _armature_actuator = None
           /\ last'.op \in {"get_joint", "default_action"})
          => _armature_actuator' =
                IF armature \in componentDict THEN armature ELSE None]_vars

\* a call was answered by an actuator that has left the registry since it
\* was bound, while another armature's actuator is still registered
C14_Witness ==
    /\ last.op = "get_joint"
    /\ Ready
    /\ Bound
    /\ ~Registered
    /\ componentDict # {}
    /\ last.ret.kind = "return"

----------------------------------------------------------------------------
(* C15 *)

\* how many parent links up from o the objects with channels are
ChannelDepths(o) == {k \in 0..(Cardinality(Objects) - 1) :
                        UpIn(parent, o, k) \in hasChannels}
NearestDepth(o) == CHOOSE k \in ChannelDepths(o) :
                       \A j \in ChannelDepths(o) : k <= j

\* C15: in every acyclic hierarchy _get_armature(obj) yields the nearest
\* ancestor of obj, obj included, that has channels, or None when no ancestor
\* has any, and changes nothing.
C15_NearestArmature ==
    [][last'.op = "_get_armature"
       => /\ last'.ret.kind = "return"
          /\ last'.ret.val =
                IF ChannelDepths(last'.arg) = {} THEN None
                ELSE UpIn(parent, last'.arg, NearestDepth(last'.arg))
          /\ UNCHANGED <<scene, pose, componentDict, sensor>>]_vars

\* the lookup passed an object without channels and stopped at the nearer of
\* two armatures above it
C15_Witness ==
    /\ last.op = "_get_armature"
    /\ ChannelDepths(last.arg) = {1, 2}
    /\ Returns(last.ret, parent[last.arg])

----------------------------------------------------------------------------
(* C16 *)

====
